---------------------------- MODULE Spec2Model ----------------------------
(***************************************************************************)
(* A model of the two scripts of the repository:                           *)
(*   - scrape_senators.py: get_senators (roster scan, bounded-parallel     *)
(*     website resolution, merge by index) and get_senate_website;         *)
(*   - main.py: get_pokemon_data (one GET, status check, JSON parse).      *)
(* Python sequences are 0-based; the model's sequences are 1-based, so     *)
(* index i of the model is index i-1 of the program.  A senator tuple      *)
(* (name, state, party, wiki_path, notes) is the 5-tuple                   *)
(* <<name, state, party, wiki_path, notes>>: senator[3] is tuple[4] here.  *)
(***************************************************************************)
EXTENDS Integers, Sequences, FiniteSets, TLC

VARIABLES
    \* ---- scrape_senators.py ----
    rows,             \* the <tr> rows of the senators table, as parsed
    net,              \* what fetching each Wikipedia path yields
    pc,               \* position of get_senators
    row_i,            \* the row the for loop of the scan is at
    current_state,    \* current_state of the scan
    senators,         \* the list built by the scan
    websites,         \* the pre-sized results list
    writes,           \* per slot of websites: how many times it was assigned
    sub_i,            \* the position of enumerate(senators) while submitting
    future_to_index,  \* future (by submission number) -> index
    fstate,           \* per future: "PENDING", "RUNNING" or "FINISHED"
    fresult,          \* per future: its result or exception
    threads,          \* worker threads the executor has spawned
    yielded,          \* the futures as_completed has handed to the loop
    warnings,         \* names printed in "Warning: could not fetch ..."
    result,           \* the list get_senators returns
    \* ---- main.py ----
    pokemon_name,     \* the argument of get_pokemon_data
    env,              \* what the network and the response do in this call
    p_pc,             \* position of get_pokemon_data
    gets,             \* the URLs handed to requests.get, in order
    printed,          \* the messages printed by get_pokemon_data
    ret               \* the value get_pokemon_data returned

svars == <<rows, net, pc, row_i, current_state, senators, websites, writes,
           sub_i, future_to_index, fstate, fresult, threads, yielded,
           warnings, result>>
pvars == <<pokemon_name, env, p_pc, gets, printed, ret>>
vars == <<rows, net, pc, row_i, current_state, senators, websites, writes,
          sub_i, future_to_index, fstate, fresult, threads, yielded,
          warnings, result, pokemon_name, env, p_pc, gets, printed, ret>>

(***************************************************************************)
(* Bounds of the model.                                                    *)
(***************************************************************************)
MaxRows == 3
MaxScanRows == 3
PoolRows == 11
MaxNameLen == 2

SeqsUpTo(S, n) == UNION {[1..k -> S] : k \in 0..n}

None == "<None>"

(***************************************************************************)
(* scrape_senators.py                                                      *)
(***************************************************************************)

\* A table row as the scan reads it: the text of its <td rowspan="2"> cell
\* (None when it has none), the text of its <th> (None when it has none),
\* the href of the link in the <th> ("" when it has no link), whether two
\* <td> siblings follow the <th>, and the party and notes extracted from the
\* second of them.
Row(state, name, href, party_ok, party, notes) ==
    [state |-> state, name |-> name, href |-> href, party_ok |-> party_ok,
     party |-> party, notes |-> notes]

HeaderRow == Row(None, "Senator", "", FALSE, "", "")
NameRowNoState == Row(None, "Pat Doe", "/wiki/b", TRUE, "Democratic", "note")
RowAL == Row("Alabama", "Katie Britt", "/wiki/a", TRUE, "Republican", "")
RowAK == Row("Alaska", "Sam Roe", "", TRUE, "Independent", "")
RowBlankState == Row("", "Lee Poe", "/wiki/a", TRUE, "Republican", "")
StateOnlyRow == Row("Alaska", None, "", FALSE, "", "")
RowNoParty == Row("Alabama", "Kim Low", "/wiki/b", FALSE, "", "")

\* Rows of the resolver's runs: every one is well formed.
ResolverRows == {RowAL, NameRowNoState, RowAK}
\* Rows of the scan's runs: also the header row, a blank state cell, a row
\* with no name cell and a name row with no party cell.
ScanRows == {HeaderRow, NameRowNoState, RowAL, RowBlankState, StateOnlyRow,
             RowNoParty}

WikiPaths == {"/wiki/a", "/wiki/b"}

\* What requests.get + raise_for_status + the parse of a senator's page give:
\* an exception, or a page with or without an infobox, whose "Website" row
\* (when it has one) links to href.
FetchError == [raises |-> TRUE, infobox |-> FALSE, website |-> FALSE, href |-> ""]
PageNoInfobox == [raises |-> FALSE, infobox |-> FALSE, website |-> FALSE, href |-> ""]
PageNoWebsite == [raises |-> FALSE, infobox |-> TRUE, website |-> FALSE, href |-> ""]
PageWebsite == [raises |-> FALSE, infobox |-> TRUE, website |-> TRUE,
                href |-> "https://www.senate.gov/x"]
Fetches == {FetchError, PageNoInfobox, PageNoWebsite, PageWebsite}

\* requests.get(WIKI_BASE + wiki_path): the page the network has for the path.
\* WIKI_BASE alone (an empty path) is the site's main page, with no infobox.
Fetch(wiki_path) ==
    IF wiki_path \in DOMAIN net THEN net[wiki_path] ELSE PageNoInfobox

\* get_senate_website, once the page is fetched: the href of the link in the
\* infobox's "Website" row, else "".
get_senate_website(page) ==
    IF page.infobox /\ page.website THEN page.href ELSE ""

\* Python truthiness of current_state: neither None nor "".
Truthy(s) == s # None /\ s # ""

\* Variant of YieldsRecord without the test of current_state.
YieldsAnyNameRow(row, state) == row.name # None

\* 'if name_cell and current_state' (line 65), with current_state as updated
\* by lines 59-61.
YieldsRecord(row, state) == row.name # None /\ Truthy(state)

\* Lines 59-61: a state cell replaces current_state.
NextState(row, state) == IF row.state # None THEN row.state ELSE state

\* One iteration of 'for row in rows' (lines 57-93).  A name row with no
\* party cell raises AttributeError at line 71, which nothing catches.
ScanRow ==
    /\ pc = "scan"
    /\ row_i <= Len(rows)
    /\ LET row == rows[row_i]
           st == NextState(row, current_state)
       IN /\ current_state' = st
          /\ IF YieldsRecord(row, st)
             THEN IF row.party_ok
                  THEN /\ senators' = Append(senators,
                              <<row.name, st, row.party, row.href, row.notes>>)
                       /\ row_i' = row_i + 1
                       /\ pc' = pc
                  ELSE /\ pc' = "raised"
                       /\ UNCHANGED <<senators, row_i>>
             ELSE /\ row_i' = row_i + 1
                  /\ UNCHANGED <<senators, pc>>
    /\ UNCHANGED <<rows, net, websites, writes, sub_i, future_to_index,
                   fstate, fresult, threads, yielded, warnings, result>>
    /\ UNCHANGED pvars

\* The loop is exhausted: lines 96-99 size the results list and open the pool.
ScanDone ==
    /\ pc = "scan"
    /\ row_i > Len(rows)
    /\ websites' = [i \in 1..Len(senators) |-> ""]
    /\ writes' = [i \in 1..Len(senators) |-> 0]
    /\ sub_i' = 1
    /\ pc' = "submit"
    /\ UNCHANGED <<rows, net, row_i, current_state, senators, future_to_index,
                   fstate, fresult, threads, yielded, warnings, result>>
    /\ UNCHANGED pvars

\* ThreadPoolExecutor(max_workers=10), line 99.
max_workers == 10

\* Variant of AdjustThreadCount for a pool with no limit: a thread per task.
SpawnUnbounded(t) == t + 1

\* Executor.submit's thread adjustment: a worker thread is added only while
\* fewer than max_workers exist.  (Newer versions of the library also reuse
\* an idle thread instead of adding one; the count below is the most threads
\* either version has.)
AdjustThreadCount(t) == IF t < max_workers THEN t + 1 ELSE t

\* Variant of ShouldSubmit without the filter.
SubmitAll(senator) == TRUE

\* 'if senator[3]' (line 103).
ShouldSubmit(senator) == senator[4] # ""

\* Variant of StoreIndex with the enumeration started one too high.
StoreIndexOffByOne(fti, i) == Append(fti, i + 1)

\* The value of the dict entry 'executor.submit(...): i' (lines 101-102).
StoreIndex(fti, i) == Append(fti, i)

\* One iteration of the dict comprehension (lines 100-104).
Submit ==
    /\ pc = "submit"
    /\ sub_i <= Len(senators)
    /\ IF ShouldSubmit(senators[sub_i])
       THEN /\ future_to_index' = StoreIndex(future_to_index, sub_i)
            /\ fstate' = Append(fstate, "PENDING")
            /\ fresult' = Append(fresult, [exc |-> FALSE, value |-> ""])
            /\ threads' = AdjustThreadCount(threads)
       ELSE UNCHANGED <<future_to_index, fstate, fresult, threads>>
    /\ sub_i' = sub_i + 1
    /\ UNCHANGED <<rows, net, pc, row_i, current_state, senators, websites,
                   writes, yielded, warnings, result>>
    /\ UNCHANGED pvars

\* The comprehension is exhausted: the as_completed loop begins (line 105).
SubmitDone ==
    /\ pc = "submit"
    /\ sub_i > Len(senators)
    /\ pc' = "collect"
    /\ UNCHANGED <<rows, net, row_i, current_state, senators, websites, writes,
                   sub_i, future_to_index, fstate, fresult, threads, yielded,
                   warnings, result>>
    /\ UNCHANGED pvars

Futures == DOMAIN future_to_index
Running == {f \in Futures : fstate[f] = "RUNNING"}
Pending == {f \in Futures : fstate[f] = "PENDING"}

\* A worker thread takes the oldest queued work item (the executor's queue is
\* first in, first out); each thread runs one item at a time.
TaskStart(f) ==
    /\ fstate[f] = "PENDING"
    /\ \A g \in 1..(f - 1) : fstate[g] # "PENDING"
    /\ Cardinality(Running) < threads
    /\ fstate' = [fstate EXCEPT ![f] = "RUNNING"]
    /\ UNCHANGED <<rows, net, pc, row_i, current_state, senators, websites,
                   writes, sub_i, future_to_index, fresult, threads, yielded,
                   warnings, result>>
    /\ UNCHANGED pvars

\* The path the task was submitted with: senator[3] of its record (line 101).
TaskPath(f) == senators[future_to_index[f]][4]

\* get_senate_website returns (lines 16-30): the future holds its value.
TaskReturn(f) ==
    /\ fstate[f] = "RUNNING"
    /\ ~Fetch(TaskPath(f)).raises
    /\ fstate' = [fstate EXCEPT ![f] = "FINISHED"]
    /\ fresult' = [fresult EXCEPT
                     ![f] = [exc |-> FALSE,
                             value |-> get_senate_website(Fetch(TaskPath(f)))]]
    /\ UNCHANGED <<rows, net, pc, row_i, current_state, senators, websites,
                   writes, sub_i, future_to_index, threads, yielded, warnings,
                   result>>
    /\ UNCHANGED pvars

\* get_senate_website raises (lines 17-18): the future holds the exception.
TaskRaise(f) ==
    /\ fstate[f] = "RUNNING"
    /\ Fetch(TaskPath(f)).raises
    /\ fstate' = [fstate EXCEPT ![f] = "FINISHED"]
    /\ fresult' = [fresult EXCEPT ![f] = [exc |-> TRUE, value |-> ""]]
    /\ UNCHANGED <<rows, net, pc, row_i, current_state, senators, websites,
                   writes, sub_i, future_to_index, threads, yielded, warnings,
                   result>>
    /\ UNCHANGED pvars

\* Variant of Collect without the try/except: the task's exception leaves
\* get_senators.
CollectNoCatch(f) ==
    /\ pc = "collect"
    /\ f \notin yielded
    /\ fstate[f] = "FINISHED"
    /\ yielded' = yielded \cup {f}
    /\ LET idx == future_to_index[f]
       IN IF fresult[f].exc
          THEN /\ pc' = "raised"
               /\ UNCHANGED <<websites, writes, warnings>>
          ELSE /\ websites' = [websites EXCEPT ![idx] = fresult[f].value]
               /\ writes' = [writes EXCEPT ![idx] = @ + 1]
               /\ UNCHANGED <<warnings, pc>>
    /\ UNCHANGED <<rows, net, row_i, current_state, senators, sub_i,
                   future_to_index, fstate, fresult, threads, result>>
    /\ UNCHANGED pvars

\* One iteration of 'for future in as_completed(future_to_index)' (lines
\* 105-110): as_completed hands over a finished future it has not handed over
\* yet; its value is stored at its index, or its exception is reported.
Collect(f) ==
    /\ pc = "collect"
    /\ f \notin yielded
    /\ fstate[f] = "FINISHED"
    /\ yielded' = yielded \cup {f}
    /\ LET idx == future_to_index[f]
       IN IF fresult[f].exc
          THEN /\ warnings' = Append(warnings, senators[idx][1])
               /\ UNCHANGED <<websites, writes>>
          ELSE /\ websites' = [websites EXCEPT ![idx] = fresult[f].value]
               /\ writes' = [writes EXCEPT ![idx] = @ + 1]
               /\ UNCHANGED warnings
    /\ UNCHANGED <<rows, net, pc, row_i, current_state, senators, sub_i,
                   future_to_index, fstate, fresult, threads, result>>
    /\ UNCHANGED pvars

\* as_completed is exhausted once it has handed over every future.
AllYielded == yielded = Futures

\* Leaving the with block calls shutdown(wait=True): it returns once no work
\* item is queued or running.
ShutdownWait == Running = {} /\ Pending = {}

\* Variant of Merge that keeps only the records with a resolved website.
RECURSIVE MergeKeepResolved(_, _)
MergeKeepResolved(sen, web) ==
    IF sen = <<>> THEN <<>>
    ELSE LET rest == MergeKeepResolved(Tail(sen), Tail(web))
         IN IF Head(web) = "" THEN rest
            ELSE <<<<Head(sen)[1], Head(sen)[2], Head(sen)[3], Head(web),
                     Head(sen)[5]>>>> \o rest

\* The list comprehension of lines 113-116.
Merge(sen, web) ==
    [i \in 1..Len(sen) |-> <<sen[i][1], sen[i][2], sen[i][3], web[i], sen[i][5]>>]

\* Variant of CollectDone that stops at the first completed task and does
\* not wait for the pool.
MergeAfterFirst ==
    /\ pc = "collect"
    /\ (yielded # {} \/ Futures = {})
    /\ result' = Merge(senators, websites)
    /\ pc' = "done"
    /\ UNCHANGED <<rows, net, row_i, current_state, senators, websites, writes,
                   sub_i, future_to_index, fstate, fresult, threads, yielded,
                   warnings>>
    /\ UNCHANGED pvars

\* The loop ends, the with block shuts the pool down (waiting for its
\* tasks), and lines 113-118 build and return the merged list.
CollectDone ==
    /\ pc = "collect"
    /\ AllYielded
    /\ ShutdownWait
    /\ result' = Merge(senators, websites)
    /\ pc' = "done"
    /\ UNCHANGED <<rows, net, row_i, current_state, senators, websites, writes,
                   sub_i, future_to_index, fstate, fresult, threads, yielded,
                   warnings>>
    /\ UNCHANGED pvars

(***************************************************************************)
(* main.py                                                                 *)
(***************************************************************************)

Letters == {"a", "A", "b", "B"}
Names == SeqsUpTo(Letters, MaxNameLen)

\* str.lower(), character by character (line 13).
LowerChar(c) == CASE c = "A" -> "a" [] c = "B" -> "b" [] OTHER -> c
\* Variant of Lower that leaves the name as typed.
Identity(s) == s

\* str.lower() of the whole name.
Lower(s) == [i \in 1..Len(s) |-> LowerChar(s[i])]

BaseUrl == <<"https://pokeapi.co/api/v2/pokemon/">>

\* Line 13: the f-string.
Url(name) == BaseUrl \o Lower(name)

\* The parsed JSON bodies a response may carry.
Type(n) == [type |-> [name |-> n]]
Body(name, height, weight, types) ==
    [name |-> name, height |-> height, weight |-> weight, types |-> types]
NoBody == Body("", 0, 0, <<>>)
Bodies == {Body("pikachu", 4, 60, <<Type("electric")>>),
           Body("charizard", 17, 905, <<Type("fire"), Type("flying")>>),
           Body("charizard", 17, 905, <<Type("flying"), Type("fire")>>)}

\* What one call meets: requests.get raises get (or "ok"), raise_for_status
\* raises status (or "ok"), response.json() raises json (or "ok" and gives
\* body).  response.json() raises requests' JSONDecodeError in newer
\* versions of the library and a plain ValueError in older ones.
Env(get, status, json, body) ==
    [get |-> get, status |-> status, json |-> json, body |-> body]
Envs ==
    {Env(e, "ok", "ok", NoBody) :
        e \in {"ConnectionError", "Timeout", "RequestException", "OtherError"}}
    \cup {Env("ok", "HTTPError", "ok", NoBody)}
    \cup {Env("ok", "ok", e, NoBody) : e \in {"JSONDecodeError", "ValueError"}}
    \cup {Env("ok", "ok", "ok", b) : b \in Bodies}

\* Variant of Catches for 'except requests.exceptions.HTTPError'.
CatchesHTTPErrorOnly(exc) == exc = "HTTPError"

\* The classes 'except requests.exceptions.RequestException' catches (line 19).
Catches(exc) ==
    exc \in {"RequestException", "ConnectionError", "Timeout", "HTTPError",
             "JSONDecodeError"}

\* What get_pokemon_data returns: None, or a value.
RetNone == [is_none |-> TRUE, value |-> NoBody]
RetValue(v) == [is_none |-> FALSE, value |-> v]
NotReturned == <<>>

ErrorMessage(exc) == [prefix |-> "Error fetching Pokemon data: ", exc |-> exc]

\* An exception raised inside the try block (lines 19-21): a caught one is
\* printed and None is returned, any other leaves the function.
Raise(exc) ==
    IF Catches(exc)
    THEN /\ printed' = Append(printed, ErrorMessage(exc))
         /\ ret' = <<RetNone>>
         /\ p_pc' = "returned"
    ELSE /\ p_pc' = "raised"
         /\ UNCHANGED <<printed, ret>>

\* Lines 13 and 16: the URL is built and requests.get is called.
PokeGet ==
    /\ p_pc = "start"
    /\ gets' = Append(gets, Url(pokemon_name))
    /\ IF env.get = "ok"
       THEN /\ p_pc' = "status"
            /\ UNCHANGED <<printed, ret>>
       ELSE Raise(env.get)
    /\ UNCHANGED <<pokemon_name, env>>
    /\ UNCHANGED svars

\* Line 17: response.raise_for_status().
PokeRaiseForStatus ==
    /\ p_pc = "status"
    /\ IF env.status = "ok"
       THEN /\ p_pc' = "json"
            /\ UNCHANGED <<printed, ret>>
       ELSE Raise(env.status)
    /\ UNCHANGED <<pokemon_name, env, gets>>
    /\ UNCHANGED svars

\* Variant of ReturnJson with the return statement missing.
FallThrough(body) == <<RetNone>>

\* Line 18: return response.json().
ReturnJson(body) == <<RetValue(body)>>

PokeJson ==
    /\ p_pc = "json"
    /\ IF env.json = "ok"
       THEN /\ ret' = ReturnJson(env.body)
            /\ p_pc' = "returned"
            /\ UNCHANGED printed
       ELSE Raise(env.json)
    /\ UNCHANGED <<pokemon_name, env, gets>>
    /\ UNCHANGED svars

(***************************************************************************)
(* Specifications                                                          *)
(***************************************************************************)

PokemonIdle ==
    /\ pokemon_name = <<>>
    /\ env = Env("ok", "ok", "ok", NoBody)
    /\ p_pc = "idle"
    /\ gets = <<>>
    /\ printed = <<>>
    /\ ret = NotReturned

\* get_senators is entered: the table is parsed, nothing is scanned yet.
SenatorsStart ==
    /\ pc = "scan"
    /\ row_i = 1
    /\ current_state = None
    /\ senators = <<>>
    /\ websites = <<>>
    /\ writes = <<>>
    /\ sub_i = 1
    /\ future_to_index = <<>>
    /\ fstate = <<>>
    /\ fresult = <<>>
    /\ threads = 0
    /\ yielded = {}
    /\ warnings = <<>>
    /\ result = <<>>

SenatorsIdle ==
    /\ rows = <<>>
    /\ net = [p \in WikiPaths |-> PageNoInfobox]
    /\ pc = "idle"
    /\ row_i = 1
    /\ current_state = None
    /\ senators = <<>>
    /\ websites = <<>>
    /\ writes = <<>>
    /\ sub_i = 1
    /\ future_to_index = <<>>
    /\ fstate = <<>>
    /\ fresult = <<>>
    /\ threads = 0
    /\ yielded = {}
    /\ warnings = <<>>
    /\ result = <<>>

\* get_senators on a well-formed table of at most MaxRows rows.
Init ==
    /\ rows \in SeqsUpTo(ResolverRows, MaxRows)
    /\ net \in [WikiPaths -> Fetches]
    /\ SenatorsStart
    /\ PokemonIdle

Next ==
    \/ ScanRow
    \/ ScanDone
    \/ Submit
    \/ SubmitDone
    \/ \E f \in Futures : TaskStart(f)
    \/ \E f \in Futures : TaskReturn(f)
    \/ \E f \in Futures : TaskRaise(f)
    \/ \E f \in Futures : Collect(f)
    \/ CollectDone

Spec == Init /\ [][Next]_vars

\* The steps of get_senators's own thread and the pool's hand-over of queued
\* work to a free worker always happen when they can; whether a running task
\* ever ends is up to the network.
FairSpec ==
    /\ Init
    /\ [][Next]_vars
    /\ WF_vars(ScanRow)
    /\ WF_vars(ScanDone)
    /\ WF_vars(Submit)
    /\ WF_vars(SubmitDone)
    /\ WF_vars(\E f \in Futures : TaskStart(f))
    /\ WF_vars(\E f \in Futures : Collect(f))
    /\ WF_vars(CollectDone)

\* get_senators on a table of PoolRows senators, each with a page: more
\* tasks than the pool has workers.
PoolRow(i) == IF i = 2 THEN NameRowNoState ELSE RowAL
InitPool ==
    /\ rows = [i \in 1..PoolRows |-> PoolRow(i)]
    /\ net = [p \in WikiPaths |-> IF p = "/wiki/a" THEN PageWebsite ELSE FetchError]
    /\ SenatorsStart
    /\ PokemonIdle

SpecPool == InitPool /\ [][Next]_vars

\* The roster scan alone, on any table of at most MaxScanRows rows.
InitScan ==
    /\ rows \in SeqsUpTo(ScanRows, MaxScanRows)
    /\ net = [p \in WikiPaths |-> PageNoInfobox]
    /\ SenatorsStart
    /\ PokemonIdle

NextScan ==
    \/ ScanRow
    \/ ScanDone

SpecScan == InitScan /\ [][NextScan]_vars

\* One call of get_pokemon_data, for every name and every environment.
InitPokemon ==
    /\ pokemon_name \in Names
    /\ env \in Envs
    /\ p_pc = "start"
    /\ gets = <<>>
    /\ printed = <<>>
    /\ ret = NotReturned
    /\ SenatorsIdle

NextPokemon ==
    \/ PokeGet
    \/ PokeRaiseForStatus
    \/ PokeJson

SpecPokemon == InitPokemon /\ [][NextPokemon]_vars

(***************************************************************************)
(* Properties                                                              *)
(***************************************************************************)

\* The index of the record a future was submitted for, and the future of a
\* record.
FutureOf(i) == CHOOSE f \in Futures : future_to_index[f] = i
HasFuture(i) == \E f \in Futures : future_to_index[f] = i

\* What the network alone decides for a record: the website its page gives,
\* "" when the record has no page or the fetch fails.
ResolvedWebsite(senator) ==
    IF senator[4] = "" THEN ""
    ELSE IF net[senator[4]].raises THEN ""
    ELSE IF net[senator[4]].infobox /\ net[senator[4]].website
         THEN net[senator[4]].href ELSE ""

\* C1: get_senators returns exactly one record per scanned record, in scan
\* order, with name, state, party and notes unchanged, and with a website
\* that the network alone decides, whatever order the tasks completed in.
C1_OrderPreserved ==
    pc = "done" =>
        /\ Len(result) = Len(senators)
        /\ \A i \in 1..Len(senators) :
              /\ result[i][1] = senators[i][1]
              /\ result[i][2] = senators[i][2]
              /\ result[i][3] = senators[i][3]
              /\ result[i][5] = senators[i][5]
              /\ result[i][4] = ResolvedWebsite(senators[i])

\* Two tasks failed and the later-submitted one was handled first; the third
\* record has no reference.
C1_Witness ==
    /\ pc = "done"
    /\ Len(result) = 3
    /\ Len(warnings) = 2
    /\ \E i, j \in 1..Len(senators) :
          /\ i < j
          /\ senators[i][1] # senators[j][1]
          /\ warnings = <<senators[j][1], senators[i][1]>>
    /\ \E i \in 1..Len(result) : result[i][4] = ""

\* C2: a failing task never aborts get_senators or its sibling tasks: the
\* function never raises in the resolver, and when it returns every record
\* is there in order, a record whose task failed has website "", and every
\* other record with a task carries the value its own task returned.
C2_FailureIsolated ==
    /\ pc # "raised"
    /\ pc = "done" =>
          /\ Len(result) = Len(senators)
          /\ \A i \in 1..Len(senators) :
                /\ result[i][1] = senators[i][1]
                /\ HasFuture(i) =>
                      /\ fstate[FutureOf(i)] = "FINISHED"
                      /\ fresult[FutureOf(i)].exc => result[i][4] = ""
                      /\ ~fresult[FutureOf(i)].exc =>
                            result[i][4] = fresult[FutureOf(i)].value

\* One task failed, a sibling returned a website, and the sibling's record
\* carries it.
C2_Witness ==
    /\ pc = "done"
    /\ \E f, g \in Futures :
          /\ fresult[f].exc
          /\ ~fresult[g].exc
          /\ fresult[g].value # ""
          /\ result[future_to_index[g]][4] = fresult[g].value
          /\ result[future_to_index[f]][4] = ""

\* C3: at most 10 resolution tasks are running at any time.
C3_AtMostTenRunning == Cardinality(Running) <= 10

\* Ten tasks are running while another submitted task waits in the queue.
C3_Witness == Cardinality(Running) = 10 /\ Pending # {}

\* C4: a task is submitted for exactly the records with a non-empty
\* reference, one per such record; a record with an empty reference is never
\* submitted and ends with website "".
C4_OnlyReferencedSubmitted ==
    /\ \A f \in Futures :
          /\ future_to_index[f] \in 1..Len(senators)
          /\ senators[future_to_index[f]][4] # ""
    /\ \A f, g \in Futures : future_to_index[f] = future_to_index[g] => f = g
    /\ (\A i \in 1..Len(senators) : senators[i][4] = "") => Futures = {}
    /\ pc \in {"collect", "done"} =>
          \A i \in 1..Len(senators) : senators[i][4] # "" => HasFuture(i)
    /\ pc = "done" =>
          \A i \in 1..Len(senators) : senators[i][4] = "" => result[i][4] = ""

\* A roster with a record without reference among records with one: the
\* former has no task and no website, a latter has both.
C4_Witness ==
    /\ pc = "done"
    /\ Len(future_to_index) = 2
    /\ \E i, j \in 1..Len(senators) :
          /\ senators[i][4] = "" /\ ~HasFuture(i) /\ result[i][4] = ""
          /\ senators[j][4] # "" /\ HasFuture(j) /\ result[j][4] # ""

\* A future only moves PENDING -> RUNNING -> FINISHED: none is cancelled or
\* dropped.
NoCancelStep ==
    /\ Futures \subseteq DOMAIN future_to_index'
    /\ \A f \in Futures :
          /\ fstate[f] = "PENDING" => fstate'[f] \in {"PENDING", "RUNNING"}
          /\ fstate[f] = "RUNNING" => fstate'[f] \in {"RUNNING", "FINISHED"}
          /\ fstate[f] = "FINISHED" => fstate'[f] = "FINISHED"

\* C5: get_senators merges and returns only when every submitted task has
\* finished and been handled, no task is cancelled, and if running tasks
\* always end then get_senators returns.
C5_WaitsForAll ==
    /\ [](pc = "done" =>
            /\ Len(result) = Len(senators)
            /\ \A f \in Futures : fstate[f] = "FINISHED" /\ f \in yielded)
    /\ [][NoCancelStep]_vars
    /\ ([]<>(Running = {}) => <>(pc = "done"))

\* get_senators returned after three tasks.
C5_Witness ==
    /\ pc = "done"
    /\ Len(future_to_index) = 3
    /\ \A f \in Futures : fstate[f] = "FINISHED"

\* The failure of the call is a transport or HTTP-status exception.
TransportOrHttpFailure ==
    \/ env.get \in {"ConnectionError", "Timeout", "RequestException"}
    \/ env.get = "ok" /\ env.status = "HTTPError"

\* C6: on a transport or HTTP-status exception get_pokemon_data does not
\* raise, returns None and prints exactly one message that starts with
\* "Error fetching Pokemon data".
C6_FailureReturnsNone ==
    TransportOrHttpFailure =>
        /\ p_pc \in {"start", "status", "returned"}
        /\ env.get # "ok" => p_pc # "status"
        /\ p_pc = "returned" =>
              /\ ret = <<RetNone>>
              /\ Len(printed) = 1
              /\ printed[1].prefix = "Error fetching Pokemon data: "
        /\ p_pc # "returned" => printed = <<>> /\ ret = NotReturned

\* A call whose GET timed out has returned None with one message.
C6_Witness ==
    /\ p_pc = "returned"
    /\ env.get = "Timeout"
    /\ ret = <<RetNone>>
    /\ Len(printed) = 1

\* The upper-case form of a letter, and two names that differ only in
\* letter case.
UpperChar(c) == CASE c = "a" -> "A" [] c = "b" -> "B" [] OTHER -> c
SameIgnoringCase(n, m) ==
    /\ Len(n) = Len(m)
    /\ \A i \in 1..Len(n) :
          n[i] = m[i] \/ UpperChar(n[i]) = m[i] \/ n[i] = UpperChar(m[i])
IsLowerCase(n) == \A i \in 1..Len(n) : n[i] \in {"a", "b"}

\* C7: a call issues exactly one GET, also after a failure, to the base URL
\* followed by the lowercase form of the name, so every name that differs
\* from the input only in letter case gives the same request.
C7_OneLowercaseGet ==
    /\ Len(gets) <= 1
    /\ p_pc # "start" =>
          /\ Len(gets) = 1
          /\ \A n \in Names :
                SameIgnoringCase(pokemon_name, n) =>
                    /\ IsLowerCase(n) => gets[1] = BaseUrl \o n
                    /\ gets[1] = Url(n)

\* A call with a mixed-case name whose GET failed has issued one GET.
C7_Witness ==
    /\ p_pc = "returned"
    /\ pokemon_name = <<"A", "b">>
    /\ env.get = "ConnectionError"
    /\ gets = <<BaseUrl \o <<"a", "b">>>>

C9_SlotWrittenOnce ==
    /\ \A f \in Futures : future_to_index[f] \in 1..Len(senators)
    /\ \A f, g \in Futures : future_to_index[f] = future_to_index[g] => f = g
    /\ pc \in {"submit", "collect", "done"} =>
          /\ Len(websites) = Len(senators)
          /\ Len(writes) = Len(senators)
          /\ \A i \in 1..Len(writes) :
                /\ writes[i] <= 1
                /\ writes[i] = 1 => HasFuture(i) /\ FutureOf(i) \in yielded
                /\ writes[i] = 0 => websites[i] = ""

\* Two different slots have been assigned, one each, while a third future is
\* not handled yet.
C9_Witness ==
    /\ pc = "collect"
    /\ Len(future_to_index) = 3
    /\ Cardinality(yielded) = 2
    /\ \E i, j \in 1..Len(writes) : i # j /\ writes[i] = 1 /\ writes[j] = 1

\* The state carried forward to row j: the text of the state cell of the
\* most recent row up to j that has one, None when there is none.
LastStateAt(j) ==
    LET S == {k \in 1..j : rows[k].state # None}
    IN IF S = {} THEN None
       ELSE rows[CHOOSE k \in S : \A m \in S : m <= k].state
NameRows == {j \in 1..Len(rows) : rows[j].name # None}
Scanned == 1..(row_i - 1)
YieldingRows == {j \in Scanned \cap NameRows : LastStateAt(j) \notin {None, ""}}
NthYielding(k) ==
    CHOOSE j \in YieldingRows : Cardinality({m \in YieldingRows : m <= j}) = k

\* C10 as stated: once the scan is over there is one record per row with a
\* name header cell, also for such rows before any state cell.
C10_OneRecordPerNameRow ==
    pc = "submit" => Len(senators) = Cardinality(NameRows)

\* C10, amended: the records are, in row order, one per scanned row with a
\* name header cell whose carried-forward state (the state cell of the most
\* recent row that has one, the row itself included) is not empty, each
\* attributed to that state; a name row before any state cell, or after an
\* empty one, yields nothing.  The scan stops with an exception only at such
\* a yielding row that has no party cell.
C10_OneRecordPerStatedNameRow ==
    /\ Len(senators) = Cardinality(YieldingRows)
    /\ \A k \in 1..Len(senators) :
          LET j == NthYielding(k)
          IN senators[k] = <<rows[j].name, LastStateAt(j), rows[j].party,
                             rows[j].href, rows[j].notes>>
    /\ pc = "raised" =>
          /\ row_i \in NameRows
          /\ LastStateAt(row_i) \notin {None, ""}
          /\ ~rows[row_i].party_ok
    /\ pc = "submit" => row_i = Len(rows) + 1

\* The header row came first and gave no record; the two rows after it gave
\* one record each, the second with the state carried forward.
C10_Witness ==
    /\ pc = "submit"
    /\ Len(rows) = 3
    /\ rows[1] = HeaderRow
    /\ rows[3].state = None
    /\ Len(senators) = 2
    /\ senators[2][2] = "Alabama"

=============================================================================
